---- MODULE Spec2Model ----
(***************************************************************************)
(* Model of jira_time_logger.py: the worklog line pattern WORKLOG_RX, the  *)
(* three subcommands (log, vimlog, issues), make_jira_client and main.     *)
(* Text is a sequence of one-character strings.                            *)
(***************************************************************************)
EXTENDS Integers, Sequences, FiniteSets, TLC

\* ------------------------------------------------------------------ bounds
\* longest run of blanks generated between two parts of an input line
MaxWs == 2
\* longest tracking string generated inside the trailing brackets of a line
MaxTrack == 1
\* longest tracking string given to the duration loop on its own
MaxMarks == 4

\* ------------------------------------------------------- character classes
None == "<None>"

Digits == {"0", "1", "2", "3", "4", "5", "6", "7", "8", "9"}

Uppers == {"A", "B", "C", "D", "E", "F", "G", "H", "I", "J", "K", "L", "M",
           "N", "O", "P", "Q", "R", "S", "T", "U", "V", "W", "X", "Y", "Z"}

Lowers == {"a", "b", "c", "d", "e", "f", "g", "h", "i", "j", "k", "l", "m",
           "n", "o", "p", "q", "r", "s", "t", "u", "v", "w", "x", "y", "z"}

\* \s
Space == {" ", "\t", "\n", "\r", "\f"}

\* \w
Word == Lowers \cup Uppers \cup Digits \cup {"_"}

\* A character class: the set it names, taken as is or negated (\W).
InClass(c, cls) == IF cls.neg THEN c \notin cls.of ELSE c \in cls.of

Cls(S) == [neg |-> FALSE, of |-> S]

NotCls(S) == [neg |-> TRUE, of |-> S]

\* ------------------------------------------------------ the regex elements
\* one class repeated greedily between lo and hi times (hi = -1: unbounded)
Rep(cls, lo, hi) == [t |-> "rep", cls |-> cls, lo |-> lo, hi |-> hi]

Lit(c) == Rep(Cls({c}), 1, 1)

One(S) == Rep(Cls(S), 1, 1)

Plus(cls) == Rep(cls, 1, -1)

Star(cls) == Rep(cls, 0, -1)

\* (?P<g> : the named group g starts here / ) : it ends here
Open(g) == [t |-> "open", g |-> g]

Close(g) == [t |-> "close", g |-> g]

\* ( body )? , greedy
Opt(body) == [t |-> "opt", body |-> body]

GroupNames == {"state", "prefix", "comment", "time", "issue", "tracking"}

WORKLOG_RX ==
    << Lit("-"), Plus(Cls(Space)), Lit("["),
       Open("state"), One({".", " ", "x"}), Close("state"),
       Lit("]"), Star(Cls(Space)),
       Open("prefix"), Star(NotCls(Word)), Close("prefix"),
       Plus(Cls(Space)),
       Open("comment"),
       Plus(Cls(Word \cup Space \cup {".", ",", ";", "-", "/"})),
       Close("comment"),
       Plus(Cls(Space)),
       Opt(<< Open("time"), Lit("@"), Plus(Cls(Digits)), Close("time") >>),
       Star(Cls(Space)),
       Lit("-"), Lit(" "),
       Open("issue"), Plus(Cls(Uppers)), Lit("-"), Plus(Cls(Digits)),
       Close("issue"),
       Plus(Cls(Space)),
       Lit("["), Star(Cls(Digits)),
       Open("tracking"), Star(Cls({".", ";", ","} \cup Space)),
       Close("tracking"),
       Lit("]") >>

\* ------------------------------------------------------ the regex matcher
\* A group that took no part in the match (Python: group(g) is None).
NoGroup == [set |-> FALSE, from |-> 0, to |-> 0]

NoMatch == [ok |-> FALSE, caps |-> [g \in GroupNames |-> NoGroup]]

RECURSIVE RunLen(_, _, _, _)
\* how many characters of s, from position pos on, are in cls (at most hi)
RunLen(s, pos, cls, hi) ==
    IF pos > Len(s) \/ hi = 0 \/ ~InClass(s[pos], cls)
    THEN 0
    ELSE 1 + RunLen(s, pos + 1, cls, IF hi < 0 THEN hi ELSE hi - 1)

RECURSIVE MatchFrom(_, _, _, _)
RECURSIVE TryRep(_, _, _, _, _, _)

\* A greedy repetition: the longest run first, then one character less at a
\* time, until the rest of the pattern matches.
TryRep(it, rest, s, pos, caps, n) ==
    IF n < it.lo
    THEN NoMatch
    ELSE LET r == MatchFrom(rest, s, pos + n, caps)
         IN  IF r.ok THEN r ELSE TryRep(it, rest, s, pos, caps, n - 1)

\* Backtracking match of the elements items against s from position pos on.
MatchFrom(items, s, pos, caps) ==
    IF Len(items) = 0
    THEN [ok |-> TRUE, caps |-> caps]
    ELSE LET it == Head(items)
             rest == Tail(items)
         IN  CASE it.t = "open" ->
                    MatchFrom(rest, s, pos,
                        [caps EXCEPT ![it.g] =
                            [set |-> TRUE, from |-> pos, to |-> pos]])
               [] it.t = "close" ->
                    MatchFrom(rest, s, pos, [caps EXCEPT ![it.g].to = pos])
               [] it.t = "opt" ->
                    LET r == MatchFrom(it.body \o rest, s, pos, caps)
                    IN  IF r.ok THEN r ELSE MatchFrom(rest, s, pos, caps)
               [] it.t = "rep" ->
                    TryRep(it, rest, s, pos, caps,
                           RunLen(s, pos, it.cls, it.hi))

\* rx.match(s): anchored at the start of s, free at its end
ReMatch(rx, s) == MatchFrom(rx, s, 1, NoMatch.caps)

\* match.group(g) of a group that took part: the text from..to-1
Group(m, s, g) == SubSeq(s, m.caps[g].from, m.caps[g].to - 1)

\* ------------------------------------------------------------ input lines
RECURSIVE Blanks(_)
Blanks(n) == IF n = 0 THEN << >> ELSE << " " >> \o Blanks(n - 1)

RECURSIVE Texts(_, _)
\* every text of at most n characters over the alphabet A
Texts(A, n) ==
    IF n = 0
    THEN {<< >>}
    ELSE LET T == Texts(A, n - 1)
         IN  T \cup {t \o << c >> : t \in T, c \in A}

\* between the leading "-" and the "[": nothing, blanks, or a tab
DashGaps == {Blanks(n) : n \in 0..MaxWs} \cup {<< "\t" >>}

StateMarks == {".", " ", "x"}

\* between the "]" and the comment: blanks, or a markup prefix
Leads == {Blanks(n) : n \in 1..MaxWs} \cup {<< " ", "*", " " >>}

CommentTexts == {<< "a" >>, << "a", " ", "b" >>}

\* between the comment and what follows it
CommentGaps == {Blanks(n) : n \in 1..MaxWs}

\* the optional @time, the issue key and the opening of the tracking group
Keys == { << "-", " ", "A", "-", "1", " ", "[" >>,
          << "@", "1", " ", "-", " ", "A", "-", "1", " ", "[" >>,
          << "-", " ", "A", "B", "-", "1", "2", " ", "[", "7" >>,
          << "-", " ", "a", "-", "1", " ", "[" >> }

TrackMarks == {".", ";", ",", " "}

Trackings == Texts(TrackMarks, MaxTrack)
                 \cup {<< ".", ".", "." >>, << ".", ".", ".", "." >>}

\* the lines that standard input may hold
Lines ==
    { << "-" >> \o g1 \o << "[", st, "]" >> \o ld \o cm \o g2 \o k
          \o tr \o << "]" >> :
        g1 \in DashGaps, st \in StateMarks, ld \in Leads, cm \in CommentTexts,
        g2 \in CommentGaps, k \in Keys, tr \in Trackings }

\* --------------------------------------------------- command line, services
Commands == {"log", "vimlog", "issues"}

\* --jira-server / JIRA_SERVER and --jira-user / JIRA_USER, possibly unset
Servers == {None, "jira.example.org"}

Users == {None, "alice"}

\* what keyring.get_password returns for the (server, user) pair
Passwords == {None, "secret"}

\* the positional arguments of the log subcommand
LogIssues == {<< "A", "-", "1" >>}

LogAmounts == {<< "1", "h" >>, << "4", "5", "m" >>}

LogComments == {<< >>, << " ", "c", " " >>}

\* what the search for assigned issues may return
Assigned == << [key |-> << "A", "-", "1" >>, summary |-> << "s" >>],
               [key |-> << "B", "-", "2" >>, summary |-> << "t", " ", "u" >>] >>

\* the other subcommands take no positional arguments
NoLogArgs == [issue |-> << >>, amount |-> << >>, comment |-> << >>]

Usage == << "u", "s", "a", "g", "e" >>

VARIABLES
    pc,          \* where the process is: main, make_jira_client, func, exited
                 \* (loop, looped: before and after the duration loop alone)
    func,        \* args.func: the selected subcommand, or None
    jira_server, \* args.jira_server
    jira_user,   \* args.jira_user
    password,    \* the secret store's entry for (jira_server, jira_user)
    largs,       \* args.issue, args.amount, args.comment of log
    lookups,     \* the queries made to the secret store: <<server, user>>
    jira,        \* args.jira: None until the client is built
    read,        \* whether vimlog has read its line from standard input
    line,        \* vimlog: the line read
    match,       \* vimlog: WORKLOG_RX.match(line)
    tracking,    \* vimlog: the text the duration loop runs over
    minutes,     \* vimlog: the minutes counted by the duration loop
    calls,       \* the calls made to the tracker client, in order
    stdout,      \* the lines printed, in order
    stderr,      \* the messages of sys.exit and of unhandled exceptions
    status       \* the exit status, None while the process runs

vars == << pc, func, jira_server, jira_user, password, largs, lookups, jira,
           read, line, match, tracking, minutes, calls, stdout, stderr,
           status >>

\* the state after parser.parse_args() (line 163)
Init ==
    /\ pc = "main"
    /\ func \in Commands \cup {None}
    /\ jira_server \in Servers
    /\ jira_user \in Users
    /\ password \in Passwords
    /\ largs \in IF func = "log"
                 THEN [issue : LogIssues, amount : LogAmounts,
                       comment : LogComments]
                 ELSE {NoLogArgs}
    /\ lookups = << >>
    /\ jira = None
    /\ read = FALSE
    /\ line = << >>
    /\ match = NoMatch
    /\ tracking = << >>
    /\ minutes = 0
    /\ calls = << >>
    /\ stdout = << >>
    /\ stderr = << >>
    /\ status = None

\* ------------------------------------------------------------------- main
\* sys.exit(message): the message goes to stderr, the status is 1; an
\* unhandled exception ends the process the same way.
Die(msg) ==
    /\ stderr' = Append(stderr, msg)
    /\ status' = 1
    /\ pc' = "exited"

\* main, lines 163-164 and 167-169: dispatch, or help and exit status 1
Main ==
    /\ pc = "main"
    /\ IF func # None
       THEN /\ pc' = "make_jira_client"
            /\ UNCHANGED << stdout, stderr, status >>
       ELSE /\ stdout' = Append(stdout, Usage)
            /\ status' = 1
            /\ pc' = "exited"
            /\ UNCHANGED stderr
    /\ UNCHANGED << func, jira_server, jira_user, password, largs, lookups,
                    jira, read, line, match, tracking, minutes, calls >>

\* as MissingConfig, but the check of the user is forgotten
MissingServerOnly(server, user) ==
    IF server = None THEN "JIRA_SERVER" ELSE None

\* make_jira_client, lines 150-153: the setting whose absence ends the run
MissingConfig(server, user) ==
    IF server = None THEN "JIRA_SERVER"
    ELSE IF user = None THEN "JIRA_USER"
    ELSE None

\* make_jira_client, lines 148-158, called from main line 165
MakeJiraClient ==
    /\ pc = "make_jira_client"
    /\ IF MissingConfig(jira_server, jira_user) # None
       THEN /\ Die(MissingConfig(jira_server, jira_user))
            /\ UNCHANGED << lookups, jira >>
       ELSE /\ lookups' = Append(lookups, << jira_server, jira_user >>)
            /\ IF password = None
               THEN /\ Die("keyring")
                    /\ UNCHANGED jira
               ELSE \E up \in BOOLEAN :
                        IF up
                        THEN /\ jira' = "JIRA"
                             /\ pc' = "func"
                             /\ UNCHANGED << stderr, status >>
                        ELSE /\ Die("JIRAError")
                             /\ UNCHANGED jira
    /\ UNCHANGED << func, jira_server, jira_user, password, largs, read,
                    line, match, tracking, minutes, calls, stdout >>

\* a handler returned: main falls off its end, the exit status is 0
Return ==
    /\ status' = 0
    /\ pc' = "exited"
    /\ UNCHANGED stderr

\* -------------------------------------------------------- tracker calls
\* jira.issue(key); ok is whether the call returned rather than raised
IssueCall(key, ok) == [op |-> "issue", issue |-> key, ok |-> ok]

\* jira.add_worklog(issue=, timeSpent=, comment=); resource tells a fetched
\* issue (log) from an issue key (vimlog)
WorklogCall(issue, resource, timeSpent, comment, ok) ==
    [op |-> "add_worklog", issue |-> issue, resource |-> resource,
     timeSpent |-> timeSpent, comment |-> comment, ok |-> ok]

SearchCall(jql, ok) == [op |-> "search_issues", jql |-> jql, ok |-> ok]

\* -------------------------------------------------------------------- log
\* as LogCalls, but the submission is made whether or not the lookup returned
LogCallsUnchecked(a, found, ok) ==
    << IssueCall(a.issue, found),
       WorklogCall(a.issue, TRUE, a.amount, a.comment, ok) >>

\* log, lines 103-108: the tracker calls made when the lookup returns
\* (found) or raises, and the submission returns (ok) or raises
LogCalls(a, found, ok) ==
    << IssueCall(a.issue, found) >> \o
    (IF found
     THEN << WorklogCall(a.issue, TRUE, a.amount, a.comment, ok) >>
     ELSE << >>)

\* log, lines 101-108
Log ==
    /\ pc = "func"
    /\ func = "log"
    /\ \E found \in BOOLEAN, ok \in BOOLEAN :
           /\ calls' = calls \o LogCalls(largs, found, ok)
           /\ IF found /\ ok THEN Return ELSE Die("JIRAError")
    /\ UNCHANGED << func, jira_server, jira_user, password, largs, lookups,
                    jira, read, line, match, tracking, minutes, stdout >>

\* ----------------------------------------------------------------- vimlog
\* as Weight, but a blank counts like a comma
WeightBlank(c) ==
    (IF c = "." THEN 30 ELSE 0) + (IF c = ";" THEN 15 ELSE 0)
        + (IF c \in {",", " "} THEN 5 ELSE 0)

\* lines 124-129: what one character adds to the minutes
Weight(c) ==
    (IF c = "." THEN 30 ELSE 0) + (IF c = ";" THEN 15 ELSE 0)
        + (IF c = "," THEN 5 ELSE 0)

RECURSIVE AccumulateFrom(_, _, _)
\* lines 123-129: the loop over the characters, from the i-th on
AccumulateFrom(t, i, acc) ==
    IF i > Len(t) THEN acc ELSE AccumulateFrom(t, i + 1, acc + Weight(t[i]))

\* lines 122-129
Accumulate(t) == AccumulateFrom(t, 1, 0)

DigitChars == << "0", "1", "2", "3", "4", "5", "6", "7", "8", "9" >>

RECURSIVE ToDecimal(_)
\* str(n) of a natural number n
ToDecimal(n) ==
    IF n < 10
    THEN << DigitChars[n + 1] >>
    ELSE ToDecimal(n \div 10) \o << DigitChars[(n % 10) + 1] >>

\* as TimeSpent, but the unit is left out
TimeSpentBare(n) == ToDecimal(n)

\* line 133: f'{minutes}m'
TimeSpent(n) == ToDecimal(n) \o << "m" >>

\* as NoMatchEcho, but the line is echoed without its mark
NoMatchEchoBare(l) == l

\* line 117
NoMatchEcho(l) == l \o << "?" >>

\* as IsComplete, but no state counts as complete
IsCompleteNever(m, l) == FALSE

\* line 119
IsComplete(m, l) == Group(m, l, "state") = << "x" >>

\* line 120
CompleteEcho(l) == l \o << "!" >>

\* as Loggable, but zero minutes are logged too
LoggableZero(n) == n >= 0

\* line 130
Loggable(n) == n > 0

\* line 136: '- [x]' + line[5:]
Rewritten(l) == << "-", " ", "[", "x", "]" >> \o SubSeq(l, 6, Len(l))

\* as SubmitOutput, but the line is printed before add_worklog is called
SubmitOutputEarly(l, ok) ==
    << << "-", " ", "[", "x", "]" >> \o SubSeq(l, 6, Len(l)) >>

\* lines 131-136: what is printed once add_worklog returned (ok) or raised
SubmitOutput(l, ok) == IF ok THEN << Rewritten(l) >> ELSE << >>

\* vimlog, lines 112-138
Vimlog ==
    /\ pc = "func"
    /\ func = "vimlog"
    /\ \/ \* input() finds standard input at its end
          /\ Die("EOFError")
          /\ UNCHANGED << read, line, match, tracking, minutes, calls,
                          stdout >>
       \/ \E l \in Lines, ok \in BOOLEAN :
          \E m \in {ReMatch(WORKLOG_RX, l)} :
              LET t == Group(m, l, "tracking")
                  n == Accumulate(t)
              IN  /\ read' = TRUE
                  /\ line' = l
                  /\ match' = m
                  /\ IF ~m.ok
                     THEN /\ stdout' = Append(stdout, NoMatchEcho(l))
                          /\ Return
                          /\ UNCHANGED << tracking, minutes, calls >>
                     ELSE IF IsComplete(m, l)
                     THEN /\ stdout' = Append(stdout, CompleteEcho(l))
                          /\ Return
                          /\ UNCHANGED << tracking, minutes, calls >>
                     ELSE /\ tracking' = t
                          /\ minutes' = n
                          /\ IF Loggable(n)
                             THEN /\ calls' = Append(calls,
                                      WorklogCall(Group(m, l, "issue"), FALSE,
                                          TimeSpent(n),
                                          Group(m, l, "comment"), ok))
                                  /\ stdout' = stdout \o SubmitOutput(l, ok)
                                  /\ IF ok THEN Return ELSE Die("JIRAError")
                             ELSE /\ stdout' = Append(stdout, l)
                                  /\ Return
                                  /\ UNCHANGED calls
    /\ UNCHANGED << func, jira_server, jira_user, password, largs, lookups,
                    jira >>

\* ----------------------------------------------------------------- issues
\* line 145: '{}: {}'.format(issue.key, issue.fields.summary)
IssueLine(i) == i.key \o << ":", " " >> \o i.summary

\* issues, lines 142-145
Issues ==
    /\ pc = "func"
    /\ func = "issues"
    /\ \/ /\ calls' = Append(calls,
                 SearchCall("assignee = currentUser()", FALSE))
          /\ Die("JIRAError")
          /\ UNCHANGED stdout
       \/ \E n \in 0..Len(Assigned) :
              /\ calls' = Append(calls,
                     SearchCall("assignee = currentUser()", TRUE))
              /\ stdout' = stdout \o [i \in 1..n |-> IssueLine(Assigned[i])]
              /\ Return
    /\ UNCHANGED << func, jira_server, jira_user, password, largs, lookups,
                    jira, read, line, match, tracking, minutes >>

Next == Main \/ MakeJiraClient \/ Log \/ Vimlog \/ Issues

Spec == Init /\ [][Next]_vars

\* ------------------------------------------------ the duration loop alone
\* the characters the loop is given: the three marks, blanks, and others
MarkChars == {".", ";", ",", " ", "x"}

\* vimlog at line 122, about to run the loop over any tracking text
InitLoop ==
    /\ pc = "loop"
    /\ func = "vimlog"
    /\ jira_server = "jira.example.org"
    /\ jira_user = "alice"
    /\ password = "secret"
    /\ largs = NoLogArgs
    /\ lookups = << << jira_server, jira_user >> >>
    /\ jira = "JIRA"
    /\ read = TRUE
    /\ line = << >>
    /\ match = NoMatch
    /\ tracking \in Texts(MarkChars, MaxMarks)
    /\ minutes = 0
    /\ calls = << >>
    /\ stdout = << >>
    /\ stderr = << >>
    /\ status = None

\* lines 122-129
Loop ==
    /\ pc = "loop"
    /\ pc' = "looped"
    /\ minutes' = Accumulate(tracking)
    /\ UNCHANGED << func, jira_server, jira_user, password, largs,
                    lookups, jira, read, line, match, tracking, calls,
                    stdout, stderr, status >>

NextLoop == Loop

SpecLoop == InitLoop /\ [][NextLoop]_vars

\* The process is single-threaded and runs each step it has reached: main
\* and make_jira_client are not postponed for ever.
SpecFair ==
    Init /\ [][Next]_vars /\ WF_vars(Main) /\ WF_vars(MakeJiraClient)

\* ------------------------------------------------------------ properties
\* how often the character c occurs in the text t
Count(t, c) == Cardinality({i \in 1..Len(t) : t[i] = c})

\* 30 per ".", 15 per ";", 5 per ","
MarkMinutes(t) == 30 * Count(t, ".") + 15 * Count(t, ";") + 5 * Count(t, ",")

RECURSIVE DecimalValue(_)
\* the number that the decimal digits d write
DecimalValue(d) ==
    IF Len(d) = 0
    THEN 0
    ELSE 10 * DecimalValue(SubSeq(d, 1, Len(d) - 1))
             + (CHOOSE v \in 0..9 : DigitChars[v + 1] = d[Len(d)])

\* ts is the decimal writing of n, without leading zeros, followed by "m"
IsMinutesText(ts, n) ==
    LET d == SubSeq(ts, 1, Len(ts) - 1)
    IN  /\ Len(ts) >= 2
        /\ ts[Len(ts)] = "m"
        /\ \A i \in 1..Len(d) : d[i] \in Digits
        /\ (Len(d) > 1 => d[1] # "0")
        /\ DecimalValue(d) = n

\* vimlog has read its line and taken its branch
VimlogRan == func = "vimlog" /\ read

Matched == VimlogRan /\ match.ok

State == Group(match, line, "state")

Marks == Group(match, line, "tracking")

\* the line with only its state marker replaced by "x"
Ticked == [line EXCEPT ![match.caps["state"].from] = "x"]

\* C1: a matching line whose state is not "x" and whose marks sum to more
\* than zero minutes leads to exactly one tracker call, an add_worklog with
\* the parsed issue key, the minutes in decimal followed by "m", and the
\* parsed comment; no further call is ever made.
C1_OneSubmission ==
    (Matched /\ State # << "x" >> /\ MarkMinutes(Marks) > 0) =>
        /\ Len(calls) = 1
        /\ calls[1].op = "add_worklog"
        /\ calls[1].issue = Group(match, line, "issue")
        /\ ~calls[1].resource
        /\ IsMinutesText(calls[1].timeSpent, MarkMinutes(Marks))
        /\ calls[1].comment = Group(match, line, "comment")

\* the first scenario of the specification: "[...]" is submitted as "90m"
C1_Witness ==
    /\ Matched
    /\ State = << " " >>
    /\ Marks = << ".", ".", "." >>
    /\ pc = "exited"
    /\ Len(calls) = 1
    /\ calls[1].timeSpent = << "9", "0", "m" >>
    /\ calls[1].issue = << "A", "-", "1" >>
    /\ calls[1].comment = << "a", " ", "b" >>

\* C2: after a successful submission the printed line is the input line
\* with only its state marker replaced by "x", whatever blanks separate the
\* leading "-" from the "[".
C2_OnlyMarkerRewritten ==
    (Matched /\ State # << "x" >> /\ MarkMinutes(Marks) > 0
        /\ Len(calls) = 1 /\ calls[1].ok) =>
        stdout = << Ticked >>

\* C3: a line that does not match is printed with "?" appended, no tracker
\* call is made, and the process ends with status 0 and nothing on stderr.
C3_NoMatchEchoed ==
    (VimlogRan /\ ~match.ok) =>
        /\ stdout = << line \o << "?" >> >>
        /\ calls = << >>
        /\ stderr = << >>
        /\ status = 0
        /\ pc = "exited"

C3_Witness ==
    /\ VimlogRan
    /\ ~match.ok
    /\ pc = "exited"
    /\ Len(stdout) = 1
    /\ stdout[1][Len(stdout[1])] = "?"

\* C4: a matching line whose state is "x" is printed with "!" appended and
\* no tracker call is made, whatever its tracking marks are.
C4_CompleteEchoed ==
    (Matched /\ State = << "x" >>) =>
        /\ stdout = << line \o << "!" >> >>
        /\ calls = << >>

C4_Witness ==
    /\ Matched
    /\ State = << "x" >>
    /\ MarkMinutes(Marks) > 0
    /\ pc = "exited"
    /\ Len(stdout) = 1
    /\ calls = << >>

\* C5: a matching line whose state is "." or " " and whose marks sum to
\* zero minutes is printed unchanged and no tracker call is made.
C5_ZeroUnchanged ==
    (Matched /\ State \in {<< "." >>, << " " >>} /\ MarkMinutes(Marks) = 0) =>
        /\ stdout = << line >>
        /\ calls = << >>

\* ... a tracking of blanks only
C5_Witness ==
    /\ Matched
    /\ State = << "." >>
    /\ Marks = << " " >>
    /\ pc = "exited"
    /\ stdout = << line >>
    /\ calls = << >>

\* the text t with its characters rearranged by the permutation p
Permuted(t, p) == [i \in 1..Len(t) |-> t[p[i]]]

\* C6: the minutes counted for a tracking text are 30 per ".", 15 per ";",
\* 5 per "," and nothing for any other character; they are the same for
\* every rearrangement of the text, 0 for the empty text, never negative.
C6_WeightedSum ==
    pc = "looped" =>
        /\ minutes = MarkMinutes(tracking)
        /\ minutes >= 0
        /\ (tracking = << >> => minutes = 0)
        /\ \A p \in Permutations(1..Len(tracking)) :
               Accumulate(Permuted(tracking, p)) = minutes

\* the last example of the specification: ". ;," gives 50
C6_Witness ==
    /\ pc = "looped"
    /\ tracking = << ".", " ", ";", "," >>
    /\ minutes = 50

\* a subcommand was selected and the configuration is incomplete
ConfigIncomplete ==
    /\ func \in Commands
    /\ (jira_server = None \/ jira_user = None \/ password = None)

C7_NothingRuns ==
    /\ ConfigIncomplete =>
           /\ jira = None
           /\ pc # "func"
           /\ ~read
           /\ calls = << >>
           /\ stdout = << >>
           /\ (pc = "exited" => status = 1)
    /\ \A i \in 1..Len(lookups) :
           lookups[i][1] # None /\ lookups[i][2] # None

\* C7: with the server, the user or the stored password absent, the process
\* ends with a non-zero status without building the client, running the
\* handler, reading a line or calling the tracker; the secret store is
\* queried only with both server and user present.
C7_ExitsBeforeClient ==
    /\ []C7_NothingRuns
    /\ ConfigIncomplete ~> (pc = "exited" /\ status = 1)

\* server and user present, no password stored: one query, then the exit
C7_Witness ==
    /\ func = "vimlog"
    /\ jira_server # None
    /\ jira_user # None
    /\ password = None
    /\ Len(lookups) = 1
    /\ pc = "exited"
    /\ status = 1
    /\ jira = None

\* C8: the comment parsed from a matching line, and submitted to the
\* tracker, has no blank at its start or at its end.
C8_CommentTrimmed ==
    Matched =>
        LET c == Group(match, line, "comment")
        IN  /\ c[1] \notin Space
            /\ c[Len(c)] \notin Space
            /\ \A i \in 1..Len(calls) : calls[i].comment = c

\* C9: when add_worklog raises, nothing is printed, the status is 1 and the
\* call was made once; the rewritten line is on stdout only after an
\* add_worklog that returned.
C9_FailurePrintsNothing ==
    /\ (func = "vimlog" /\ Len(calls) >= 1 /\ ~calls[1].ok) =>
           /\ stdout = << >>
           /\ status = 1
           /\ pc = "exited"
           /\ Len(calls) = 1
    /\ (VimlogRan /\ Len(stdout) >= 1 /\ stdout[1] = Rewritten(line)) =>
           /\ Len(calls) = 1
           /\ calls[1].ok
           /\ Len(stdout) = 1

C9_Witness ==
    /\ Matched
    /\ Len(calls) = 1
    /\ calls[1].op = "add_worklog"
    /\ ~calls[1].ok
    /\ stdout = << >>
    /\ stderr = << "JIRAError" >>
    /\ status = 1

\* C10: log first looks the issue up by the given key; when the lookup
\* returns it makes exactly one add_worklog with the amount and the comment
\* as given, and when the lookup raises it makes none.
C10_LookupThenSubmit ==
    (func = "log" /\ jira # None /\ pc = "exited") =>
        /\ Len(calls) >= 1
        /\ calls[1].op = "issue"
        /\ calls[1].issue = largs.issue
        /\ IF calls[1].ok
           THEN /\ Len(calls) = 2
                /\ calls[2].op = "add_worklog"
                /\ calls[2].issue = largs.issue
                /\ calls[2].resource
                /\ calls[2].timeSpent = largs.amount
                /\ calls[2].comment = largs.comment
           ELSE /\ Len(calls) = 1
                /\ status = 1

\* the lookup raised: one call, no submission
C10_Witness ==
    /\ func = "log"
    /\ pc = "exited"
    /\ Len(calls) = 1
    /\ calls[1].op = "issue"
    /\ ~calls[1].ok
    /\ largs.comment = << " ", "c", " " >>

====
